---- MODULE Spec2Model ----
(***************************************************************************)
(* Model of iggtools' build_marker_genes subcommand                        *)
(* (src/iggtools/subcommands/build_marker_genes.py): the selection decoder *)
(* decode_genomes_arg, the master's per-genome dispatch genome_work, and   *)
(* the slave's pipeline identify_marker_genes / build_marker_genes_slave,  *)
(* against a remote object store.                                          *)
(*                                                                         *)
(* Strings are sequences of one-character strings, so that split, replace, *)
(* int() and sorted() are computed, not assumed.                           *)
(***************************************************************************)
EXTENDS Integers, Sequences, FiniteSets, TLC

\* ------------------------------------------------------------------ bounds
\* Genome numbers of the catalog are 1..MaxGenomeNum.
MaxGenomeNum == 3
\* Largest modulus n of a slice "i:n" enumerated for the sharding property.
MaxModulus == 3
\* Longest comma-separated selection enumerated for the decoder.
MaxTokens == 2
\* Number of master invocations (runs) of one scenario.
NumRuns == 2
\* Failures of commands, transfers and processes injected in one scenario.
MaxFaults == 2

\* ----------------------------------------------------------------- strings
DigitChars == <<"0", "1", "2", "3", "4", "5", "6", "7", "8", "9">>

IsDigit(c) == \E k \in 1..10 : DigitChars[k] = c

DigitVal(c) == (CHOOSE k \in 1..10 : DigitChars[k] = c) - 1

\* Code points of the characters the model uses (Python compares strings by
\* code point).
Ord(c) ==
    CASE c = " " -> 32 [] c = "+" -> 43 [] c = "," -> 44 [] c = "-" -> 45
      [] IsDigit(c) -> 48 + DigitVal(c)
      [] c = ":" -> 58
      [] c = "A" -> 65 [] c = "E" -> 69 [] c = "G" -> 71 [] c = "L" -> 76
      [] c = "M" -> 77 [] c = "N" -> 78 [] c = "O" -> 79 [] c = "T" -> 84
      [] c = "U" -> 85 [] c = "X" -> 88 [] c = "_" -> 95
      [] c = "a" -> 97 [] c = "l" -> 108 [] c = "x" -> 120

\* str.upper() on the letters the model uses.
UpperChar_asis(c) == c

UpperChar(c) ==
    CASE c = "a" -> "A" [] c = "l" -> "L" [] c = "x" -> "X" [] OTHER -> c

Upper(s) == [k \in 1..Len(s) |-> UpperChar(s[k])]

\* c in s
Contains(s, c) == \E k \in 1..Len(s) : s[k] = c

\* s.startswith(p)
StartsWith(s, p) == Len(p) <= Len(s) /\ SubSeq(s, 1, Len(p)) = p

\* s.split(sep) for a one-character separator: empty fields are kept.
RECURSIVE SplitFrom(_, _, _)
SplitFrom(s, sep, cur) ==
    IF s = <<>> THEN <<cur>>
    ELSE IF Head(s) = sep THEN <<cur>> \o SplitFrom(Tail(s), sep, <<>>)
    ELSE SplitFrom(Tail(s), sep, Append(cur, Head(s)))

Split(s, sep) == SplitFrom(s, sep, <<>>)

\* s.replace(old, ""): every non-overlapping occurrence, left to right.
RECURSIVE Remove(_, _)
Remove(s, old) ==
    IF s = <<>> THEN <<>>
    ELSE IF StartsWith(s, old) THEN Remove(SubSeq(s, Len(old) + 1, Len(s)), old)
    ELSE <<Head(s)>> \o Remove(Tail(s), old)

\* s.strip() of blanks.
RECURSIVE LStrip(_)
LStrip(s) == IF s # <<>> /\ Head(s) = " " THEN LStrip(Tail(s)) ELSE s

RECURSIVE RStrip(_)
RStrip(s) ==
    IF s # <<>> /\ s[Len(s)] = " " THEN RStrip(SubSeq(s, 1, Len(s) - 1)) ELSE s

Strip(s) == RStrip(LStrip(s))

RECURSIVE DigitsValue(_, _)
DigitsValue(s, acc) ==
    IF s = <<>> THEN acc ELSE DigitsValue(Tail(s), 10 * acc + DigitVal(Head(s)))

\* int(s): blanks stripped, an optional sign, then one or more decimal digits;
\* anything else raises ValueError (ok = FALSE).
ParseInt(s) ==
    LET t == Strip(s)
        signed == t # <<>> /\ t[1] \in {"-", "+"}
        body == IF signed THEN Tail(t) ELSE t
    IN IF body = <<>> \/ \E k \in 1..Len(body) : ~IsDigit(body[k])
       THEN [ok |-> FALSE, val |-> 0]
       ELSE [ok |-> TRUE,
             val |-> IF signed /\ t[1] = "-" THEN 0 - DigitsValue(body, 0)
                     ELSE DigitsValue(body, 0)]

\* str(k) for k >= 0.
RECURSIVE FormatNat(_)
FormatNat(k) ==
    IF k < 10 THEN <<DigitChars[k + 1]>>
    ELSE FormatNat(k \div 10) \o <<DigitChars[(k % 10) + 1]>>

\* a < b for strings, by code point, a proper prefix first.
RECURSIVE StrLess(_, _)
StrLess(a, b) ==
    IF b = <<>> THEN FALSE
    ELSE IF a = <<>> THEN TRUE
    ELSE IF Ord(Head(a)) # Ord(Head(b)) THEN Ord(Head(a)) < Ord(Head(b))
    ELSE StrLess(Tail(a), Tail(b))

\* sorted(S) of a set of strings.
RECURSIVE SortedSeq(_)
SortedSeq(S) ==
    IF S = {} THEN <<>>
    ELSE LET m == CHOOSE x \in S : \A y \in S \ {x} : StrLess(x, y)
         IN <<m>> \o SortedSeq(S \ {m})

\* ",".join(toks)
RECURSIVE Join(_)
Join(toks) ==
    IF toks = <<>> THEN <<>>
    ELSE IF Len(toks) = 1 THEN toks[1]
    ELSE toks[1] \o <<",">> \o Join(Tail(toks))

Range(f) == {f[k] : k \in DOMAIN f}

\* ----------------------------------------------------------- genome ids
GenomePrefix == <<"G", "U", "T", "_", "G", "E", "N", "O", "M", "E">>

\* Catalog ids are GUT_GENOME followed by the zero-padded number.
GenomeId(k) ==
    GenomePrefix \o (IF k < 10 THEN <<"0", "0">> ELSE <<"0">>) \o FormatNat(k)

AllGenomeIds == {GenomeId(k) : k \in 1..MaxGenomeNum}

\* ------------------------------------------------- decode_genomes_arg
\* The assertion of line 148.
SliceInRange_offbyone(i, n) == 0 <= i /\ i <= n

SliceInRange(i, n) == 0 <= i /\ i < n

\* Line 151: the genome belongs to class i modulo n.
InSlice_atmost(gid_int, i, n) == gid_int % n <= i

InSlice(gid_int, i, n) == gid_int % n = i

\* Lines 149-152: the genomes of the catalog in class i modulo n; any id
\* whose suffix is not an integer raises.
SliceOf(i, n, genomes) ==
    IF \E gid \in genomes : ~ParseInt(Remove(gid, GenomePrefix)).ok
    THEN [ok |-> FALSE, set |-> {}]
    ELSE [ok |-> TRUE,
          set |-> {gid \in genomes :
                      InSlice(ParseInt(Remove(gid, GenomePrefix)).val, i, n)}]

\* Lines 142-152: one token g of the selection.
DecodeToken(g, genomes) ==
    IF ~Contains(g, ":") THEN [ok |-> TRUE, set |-> {g}]
    ELSE LET parts == Split(g, ":")
         IN IF Len(parts) # 2 THEN [ok |-> FALSE, set |-> {}]
            ELSE LET i == ParseInt(parts[1])
                     n == ParseInt(parts[2])
                 IN IF ~i.ok \/ ~n.ok THEN [ok |-> FALSE, set |-> {}]
                    ELSE IF ~SliceInRange(i.val, n.val)
                         THEN [ok |-> FALSE, set |-> {}]
                    ELSE SliceOf(i.val, n.val, genomes)

\* Lines 141-152: the tokens in order; the first failing token raises.
RECURSIVE DecodeTokens(_, _, _)
DecodeTokens(toks, genomes, selected_genomes) ==
    IF toks = <<>> THEN [ok |-> TRUE, set |-> selected_genomes]
    ELSE LET r == DecodeToken(Head(toks), genomes)
         IN IF ~r.ok THEN [ok |-> FALSE, set |-> {}]
            ELSE DecodeTokens(Tail(toks), genomes, selected_genomes \cup r.set)

\* decode_genomes_arg(args, genomes): ok = FALSE when it raises, else the
\* sorted list it returns.
decode_genomes_arg(genomes_arg, genomes) ==
    IF Upper(genomes_arg) = <<"A", "L", "L">>
    THEN [ok |-> TRUE, list |-> SortedSeq(genomes)]
    ELSE LET r == DecodeTokens(Split(genomes_arg, ","), genomes, {})
         IN IF r.ok THEN [ok |-> TRUE, list |-> SortedSeq(r.set)]
            ELSE [ok |-> FALSE, list |-> <<>>]

\* ------------------------------------------- parse_hmmsearch, find_hits
\* Longest report (in lines) enumerated for find_hits.
MaxLines == 3

\* Lines 81-82: the thresholds of iggtools.params.inputs; e-values are counted
\* in units of the smallest one, coverages are fractions <<num, den>>.
hmmsearch_max_evalue == 5
hmmsearch_min_cov == <<1, 2>>

\* a < b for fractions with positive denominators.
FracLess(a, b) == a[1] * b[2] < b[1] * a[2]

\* min(a, b): the first argument unless the second is smaller.
FracMin(a, b) == IF FracLess(b, a) THEN b ELSE a

\* A line of the report: a comment, or the columns parse_hmmsearch reads,
\* named by their index.
ReportLine(x0, x3, x12, x19, x20, x15, x16) ==
    [comment |-> FALSE, x0 |-> x0, x2 |-> 4, x3 |-> x3, x5 |-> 4, x12 |-> x12,
     x15 |-> x15, x16 |-> x16, x19 |-> x19, x20 |-> x20]

CommentLine ==
    [comment |-> TRUE, x0 |-> "#", x2 |-> 0, x3 |-> "", x5 |-> 0, x12 |-> 0,
     x15 |-> 0, x16 |-> 0, x19 |-> 0, x20 |-> 0]

\* Lines 71-76: the record of one line.
ParseLine(x) ==
    [query |-> x.x0, target |-> x.x3, evalue |-> x.x12,
     qcov |-> <<x.x20 - x.x19 + 1, x.x2>>,
     tcov |-> <<x.x16 - x.x15 + 1, x.x5>>,
     qlen |-> x.x2, tlen |-> x.x5]

\* Lines 64-76: the records of the lines that are no comments, in order.
RECURSIVE parse_hmmsearch(_)
parse_hmmsearch(lines) ==
    IF lines = <<>> THEN <<>>
    ELSE IF Head(lines).comment THEN parse_hmmsearch(Tail(lines))
    ELSE <<ParseLine(Head(lines))>> \o parse_hmmsearch(Tail(lines))

\* Lines 86-89: the record is not discarded.
Passes_evalueOnly(r) == ~(r.evalue > hmmsearch_max_evalue)

Passes(r) ==
    /\ ~(r.evalue > hmmsearch_max_evalue)
    /\ ~FracLess(FracMin(r.qcov, r.tcov), hmmsearch_min_cov)

\* Line 92: the record replaces the one kept for its target.
Replaces_orequal(r, kept) == r.evalue <= kept.evalue

Replaces(r, kept) == r.evalue < kept.evalue

\* Lines 85-93: the loop over the records; hits is the dict's values in the
\* order its keys were inserted (a replaced value keeps its key's place).
RECURSIVE FindHitsLoop(_, _)
FindHitsLoop(recs, hits) ==
    IF recs = <<>> THEN hits
    ELSE LET r == Head(recs)
             known == {k \in 1..Len(hits) : hits[k].target = r.target}
         IN IF ~Passes(r) THEN FindHitsLoop(Tail(recs), hits)
            ELSE IF known = {} THEN FindHitsLoop(Tail(recs), Append(hits, r))
            ELSE LET k == CHOOSE j \in known : TRUE
                 IN IF Replaces(r, hits[k])
                    THEN FindHitsLoop(Tail(recs), [hits EXCEPT ![k] = r])
                    ELSE FindHitsLoop(Tail(recs), hits)

\* Lines 79-94.
find_hits(lines) == FindHitsLoop(parse_hmmsearch(lines), <<>>)


\* ------------------------------------------------------------------ state
VARIABLES
    catalog,          \* species_for_genome's keys: the genome ids of the catalog
    genes,            \* per genome: the gene ids of its sequence file (.ffn)
    sel,              \* decoder runs: the args.genomes last handed to the decoder
    decoded,          \* decoder runs: what that call did
    modulus,          \* decoder runs: the n whose slices 0:n .. n-1:n are decoded
    shards,           \* decoder runs: the results of 0:n, 1:n, ... so far
    report,           \* find_hits runs: the lines of the report handed to it
    hits,             \* find_hits runs: what that call returned
    concurrent_runs,  \* TRUE when the invocations overlap (each on its own host)
    args,             \* per run: genomes, force, debug of its command line
    runpc,            \* per run: idle, dispatch, exit0, exit1, crashed
    genome_id_list,   \* per run: the decoded list handed to the pool
    task,             \* per run and genome of its list: genome_work's position
    store,            \* remote store: per genome and artifact, the run that wrote it
    local,            \* per host and working directory: the files in it
    faults            \* failures and crashes the environment has caused so far

decodeVars == <<sel, decoded, modulus, shards>>
hitVars == <<report, hits>>
envVars == <<catalog, genes, concurrent_runs>>
vars == <<catalog, genes, sel, decoded, modulus, shards, report, hits, concurrent_runs, args,
          runpc, genome_id_list, task, store, local, faults>>

Runs == 1..NumRuns

\* Line 10: the size of the master's pool (num_physical_cores of the host).
CONCURRENT_MARKER_GENES_IDENTIFY == 2

\* ------------------------------------------------------ names and paths
\* Lines 37, 107, 108, 181: file names, the "<genome_id>." prefix left out.
hmmsearch_file == "hmmsearch"
hmmsearch_seq == "markers.fa"
hmmsearch_map == "markers.map"
slave_log == "build_marker_genes.log"
bogus_file == "hmmsearch.bogus"

\* Line 23-24.
lastoutput == "markers.map"

\* Line 117.
output_files == <<hmmsearch_file, hmmsearch_seq, hmmsearch_map>>

\* Lines 227-228: output_files[:-1], uploaded before the last one.
NonFinal_first(files) == SubSeq(files, 1, Len(files) - 2)

NonFinal(files) == SubSeq(files, 1, Len(files) - 1)

\* Line 232: output_files[-1].
Final(files) == files[Len(files)]

StoreFiles == {hmmsearch_file, hmmsearch_seq, hmmsearch_map, slave_log}
LocalFiles == StoreFiles \cup {bogus_file}

\* db.genomes, the genome -> species table: two genomes per species.
species_for_genome ==
    [g \in AllGenomeIds |->
        <<"s">> \o FormatNat((ParseInt(Remove(g, GenomePrefix)).val + 1) \div 2)]

\* Line 182: the working directory of a genome.
slave_subdir_bySpecies(g) == <<species_for_genome[g]>>

slave_subdir(g) == <<species_for_genome[g], g>>

Dirs == {slave_subdir(g) : g \in AllGenomeIds}

\* Sequential invocations are made in place on one host; overlapping ones
\* each on a host of their own.
Host(r) == IF concurrent_runs THEN r ELSE 1

\* A directory: the run that wrote each of its files (0: no such file), and
\* whether the report under its own name is cut short, by a tool that
\* failed or by a tool that was killed with its slave.
NoFiles == [f \in LocalFiles |-> 0]
NoDir == [exists |-> FALSE, files |-> NoFiles, cut |-> "no"]
NoArtifacts == [f \in StoreFiles |-> 0]

\* Line 174: find_files(dest_file) on the completion marker.
MarkerPresent(g) == store[g][lastoutput] # 0

\* Lines 174-177: the item is skipped.
ShouldSkip_inverted(found, force) == found /\ force

ShouldSkip(found, force) == found /\ ~force

\* Lines 193-200: try/finally lets the slave's failure propagate.
ItemOutcome_swallowed(exc) == "success"

ItemOutcome(exc) == IF exc THEN "failure" ELSE "success"

\* No command line yet.
NoArgs == [genomes |-> <<>>, force |-> FALSE, debug |-> FALSE]

\* genome_work's position (pc) in an item, whether the slave has failed
\* (exc), the uploads attempted and done, how the item ended, how often the
\* search tool ran, and the last step the slave entered.
NewTask == [pc |-> "queued", exc |-> FALSE, attempted |-> {}, uploaded |-> {},
            outcome |-> "none", tool |-> 0, last |-> "none"]

\* Lines 99-119 and 226-232: the steps of the slave, in the order of the
\* code.
WorkerSteps ==
    <<"clear", "search", "fetch", "emit", "validate", "upload", "final">>

WorkerPcs == Range(WorkerSteps)

\* The step after pc; after the last one the slave ends and the master goes
\* on to the log.
NextStep_unchecked(pc) ==
    IF pc = "emit" THEN "upload"
    ELSE IF pc = "final" THEN "log"
    ELSE WorkerSteps[(CHOOSE k \in 1..Len(WorkerSteps) : WorkerSteps[k] = pc) + 1]

NextStep(pc) ==
    IF pc = "final" THEN "log"
    ELSE WorkerSteps[(CHOOSE k \in 1..Len(WorkerSteps) : WorkerSteps[k] = pc) + 1]

\* Items of run r a pool thread is working on.
InFlight(r) ==
    {g \in DOMAIN task[r] : task[r][g].pc \notin {"queued", "done"}}

\* ThreadPool(num_threads): a thread is free.
PoolHasSlot(r, num_threads) == Cardinality(InFlight(r)) < num_threads

\* ThreadPool.map hands the items out in list order.
NextInQueue(r, g) ==
    \E k \in 1..Len(genome_id_list[r]) :
        /\ genome_id_list[r][k] = g
        /\ \A j \in 1..(k - 1) : task[r][genome_id_list[r][j]].pc # "queued"

\* Line 203: the number of threads handed to the pool.
NumThreads_perItem(r) == Len(genome_id_list[r])

NumThreads(r) == CONCURRENT_MARKER_GENES_IDENTIFY

\* Line 203: every item of the list is handed to the pool, whatever the
\* others did.
CanDispatch_failfast(r, g) ==
    /\ PoolHasSlot(r, NumThreads(r))
    /\ NextInQueue(r, g)
    /\ \A o \in DOMAIN task[r] : task[r][o].outcome # "failure"

CanDispatch(r, g) == PoolHasSlot(r, NumThreads(r)) /\ NextInQueue(r, g)


\* ---------------------------------------------------------------- decoder
Slice(a, b) == a \o <<":">> \o b

\* Tokens the decoder is tried on: catalog ids, ids unknown to the catalog,
\* slices in and out of range, and slices that are no pair of integers.
TokenPool ==
    { GenomeId(1), GenomeId(2), GenomeId(MaxGenomeNum + 1), <<"x">>,
      Slice(<<"0">>, <<"2">>), Slice(<<"1">>, <<"2">>), Slice(<<"2">>, <<"2">>),
      Slice(<<"-", "1">>, <<"2">>), Slice(<<"x">>, <<"2">>),
      Slice(<<"1">>, <<"x">>), Slice(<<"1">>, Slice(<<"2">>, <<"3">>)) }

TokenLists == UNION {[1..k -> TokenPool] : k \in 1..MaxTokens}

Selections ==
    {<<"a", "l", "l">>, <<"A", "L", "L">>, <<"A", "l", "l">>}
        \cup {Join(ts) : ts \in TokenLists}

NotDecoded == [status |-> "none", list |-> <<>>]

\* What a call of decode_genomes_arg leaves behind.
DecodeResult(genomes_arg, genomes) ==
    LET r == decode_genomes_arg(genomes_arg, genomes)
    IN [status |-> IF r.ok THEN "ok" ELSE "error", list |-> r.list]

\* One call of the decoder on an arbitrary selection.
Decode ==
    /\ decoded.status = "none"
    /\ shards = <<>>
    /\ \E s \in Selections :
          /\ sel' = s
          /\ decoded' = DecodeResult(s, catalog)
    /\ UNCHANGED <<modulus, shards, hitVars, envVars, args, runpc, genome_id_list, task,
                   store, local, faults>>

\* The calls for "0:n", "1:n", ... of n independent runs, in turn.
DecodeShard ==
    /\ decoded.status = "none"
    /\ Len(shards) < modulus
    /\ LET s == Slice(FormatNat(Len(shards)), FormatNat(modulus))
       IN /\ sel' = s
          /\ shards' = Append(shards, DecodeResult(s, catalog))
    /\ UNCHANGED <<decoded, modulus, hitVars, envVars, args, runpc, genome_id_list, task,
                   store, local, faults>>

\* Selections of a single invocation: three genomes of the catalog, a genome
\* and a token unknown to the catalog, a slice, and a slice out of range.
RunSelections ==
    { Join(<<GenomeId(1), GenomeId(2), GenomeId(3)>>),
      Join(<<GenomeId(1), <<"x">>>>),
      Slice(<<"1">>, <<"2">>),
      Slice(<<"2">>, <<"2">>) }

\* Selection of the invocations that are repeated over the same item.
RerunSelections == {GenomeId(1)}

ArgsOf(S) == [genomes : S, force : BOOLEAN, debug : BOOLEAN]

\* ----------------------------------------------------------------- master
Terminated(r) == runpc[r] \in {"exit0", "exit1", "crashed"}

\* A command, a transfer or a process fails; the environment does so at most
\* MaxFaults times.
Fault == faults < MaxFaults /\ faults' = faults + 1

NoFault == UNCHANGED faults

SetTask(r, g, t) == task' = [task EXCEPT ![r][g] = t]

\* genome_work raises before the slave was started.
Fail(r, g) ==
    SetTask(r, g, [task[r][g] EXCEPT !.pc = "done", !.outcome = "failure"])

\* The slave ends with an error: command(slave_cmd) raises in the master.
SlaveFails(r, g) ==
    SetTask(r, g, [task[r][g] EXCEPT !.pc = "log", !.exc = TRUE])

\* The task t at position pc.
Entered(t, pc) ==
    [t EXCEPT !.pc = pc, !.last = IF pc \in WorkerPcs THEN pc ELSE t.last]

Step(r, g, pc) == SetTask(r, g, Entered(task[r][g], pc))

Dir(r, g) == local[Host(r)][slave_subdir(g)]

SetDir(r, g, d) == local' = [local EXCEPT ![Host(r)][slave_subdir(g)] = d]

\* Invocations that do not overlap are made one after the other has ended;
\* two invocations overlap.
MayStart(r) ==
    IF concurrent_runs THEN r <= 2
    ELSE IF r = 1 THEN TRUE ELSE Terminated(r - 1)

\* The command lines of invocation r: the first one works on an empty store,
\* where force is not read; an invocation is repeated only over the genome of
\* RerunSelections.
CommandLines(r) ==
    IF concurrent_runs THEN ArgsOf(RerunSelections)
    ELSE IF r = 1
         THEN {a \in ArgsOf(RunSelections \cup RerunSelections) : ~a.force}
    ELSE IF args[r - 1].genomes \in RerunSelections THEN ArgsOf(RerunSelections)
    ELSE {}

\* What is remembered of the invocations when invocation r starts: the
\* processes of those before the last one are long gone.
Remembered(f, r, nothing) ==
    [q \in Runs |-> IF q < r - 1 THEN nothing ELSE f[q]]

\* Lines 159-166, 202: the master starts, downloads the table of contents
\* and the model, and decodes the selection; a failure of either ends the
\* run before the pool exists.
StartRun(r) ==
    /\ runpc[r] = "idle"
    /\ MayStart(r)
    /\ \E a \in CommandLines(r) :
          /\ args' = [Remembered(args, r, NoArgs) EXCEPT ![r] = a]
          /\ LET d == decode_genomes_arg(a.genomes, catalog)
                 lists == Remembered(genome_id_list, r, <<>>)
                 tasks == Remembered(task, r, <<>>)
             IN \/ /\ d.ok
                   /\ runpc' = [runpc EXCEPT ![r] = "dispatch"]
                   /\ genome_id_list' = [lists EXCEPT ![r] = d.list]
                   /\ task' = [tasks EXCEPT ![r] = [g \in Range(d.list) |-> NewTask]]
                   /\ NoFault
                \/ /\ ~d.ok
                   /\ runpc' = [runpc EXCEPT ![r] = "exit1"]
                   /\ genome_id_list' = lists
                   /\ task' = tasks
                   /\ NoFault
                \/ /\ Fault                     \* download_reference fails
                   /\ runpc' = [runpc EXCEPT ![r] = "exit1"]
                   /\ genome_id_list' = lists
                   /\ task' = tasks
    /\ UNCHANGED <<decodeVars, hitVars, envVars, store, local>>

\* Line 203: a pool thread takes the next item of the list.
Dispatch(r, g) ==
    /\ runpc[r] = "dispatch"
    /\ g \in DOMAIN task[r]
    /\ task[r][g].pc = "queued"
    /\ CanDispatch(r, g)
    /\ Step(r, g, "check")
    /\ UNCHANGED <<decodeVars, hitVars, envVars, args, runpc, genome_id_list, store, local,
                   faults>>

At(r, g, pc) ==
    /\ runpc[r] = "dispatch"
    /\ g \in DOMAIN task[r]
    /\ task[r][g].pc = pc

\* Lines 169-180: the assertion on the catalog, then the completion check.
Check(r, g) ==
    /\ At(r, g, "check")
    /\ \/ /\ g \notin catalog
          /\ Fail(r, g)
          /\ NoFault
       \/ /\ g \in catalog
          /\ Fault                        \* find_files_with_retry gives up
          /\ Fail(r, g)
       \/ /\ g \in catalog
          /\ ShouldSkip(MarkerPresent(g), args[r].force)
          /\ SetTask(r, g, [task[r][g] EXCEPT
                               !.pc = "done", !.outcome = "skipped"])
          /\ NoFault
       \/ /\ g \in catalog
          /\ ~ShouldSkip(MarkerPresent(g), args[r].force)
          /\ Step(r, g, "prep")
          /\ NoFault
    /\ UNCHANGED <<decodeVars, hitVars, envVars, args, runpc, genome_id_list, store, local>>

\* Lines 183-184: the directory after rm -rf, which debug leaves out.
Emptied_never(debug, dir) == dir

Emptied(debug, dir) == IF debug THEN dir ELSE NoDir

\* Lines 181-192: rm -rf unless debug, mkdir unless the directory is there,
\* and the log file opened for writing.
Prep(r, g) ==
    /\ At(r, g, "prep")
    /\ LET removed == Emptied(args[r].debug, Dir(r, g))
           made == [removed EXCEPT !.exists = TRUE]
           logged == [made EXCEPT !.files[slave_log] = r]
       IN \/ /\ SetDir(r, g, logged)
             /\ Step(r, g, "clear")
             /\ NoFault
          \/ /\ ~args[r].debug          \* rm -rf fails
             /\ Fault
             /\ Fail(r, g)
             /\ UNCHANGED local
          \/ /\ ~removed.exists         \* mkdir fails
             /\ Fault
             /\ SetDir(r, g, removed)
             /\ Fail(r, g)
    /\ UNCHANGED <<decodeVars, hitVars, envVars, args, runpc, genome_id_list, store>>

\* ------------------------------------------------------------------ slave
\* Line 99: what aws s3 rm --recursive leaves of the artifacts under the
\* genome's destination prefix.
ClearedPrefix_markerOnly(artifacts) == [artifacts EXCEPT ![lastoutput] = 0]

ClearedPrefix_keepMarker(artifacts) ==
    [f \in DOMAIN artifacts |-> IF f = lastoutput THEN artifacts[f] ELSE 0]

ClearedPrefix(artifacts) == [f \in DOMAIN artifacts |-> 0]

\* What is left of the artifacts when the recursive delete stops before its
\* end: the objects are deleted one by one, in no order the code controls.
PartlyCleared(artifacts, kept) ==
    [f \in DOMAIN artifacts |-> IF f \in kept THEN artifacts[f] ELSE 0]

\* Line 99: the slave starts by clearing the destination; when the command
\* fails, whatever it had deleted stays deleted and the slave raises.
Clear(r, g) ==
    /\ At(r, g, "clear")
    /\ \/ /\ store' = [store EXCEPT ![g] = ClearedPrefix(store[g])]
          /\ Step(r, g, NextStep("clear"))
          /\ NoFault
       \/ /\ Fault
          /\ SlaveFails(r, g)
          /\ \E kept \in SUBSET {f \in StoreFiles : store[g][f] # 0} :
                store' = [store EXCEPT ![g] = PartlyCleared(store[g], kept)]
    /\ UNCHANGED <<decodeVars, hitVars, envVars, args, runpc, genome_id_list, local>>

\* Line 45: the directory after the tool of run r failed, with or without a
\* report cut short under its name.
ToolLeft(dir, r, partial) ==
    IF partial
    THEN [dir EXCEPT !.files[hmmsearch_file] = r, !.cut = "failed"]
    ELSE dir

\* Line 48: mv of the report to .bogus, which does nothing without a report.
Quarantine_none(dir) == dir

Quarantine(dir) ==
    IF dir.files[hmmsearch_file] # 0
    THEN [dir EXCEPT !.files[bogus_file] = dir.files[hmmsearch_file],
                     !.files[hmmsearch_file] = 0,
                     !.cut = "no"]
    ELSE dir

\* Lines 31-51: hmmsearch(): the download, then the report found in the
\* directory is kept, or else the tool runs; when the tool fails, a report it
\* left is renamed to .bogus.
Search(r, g) ==
    /\ At(r, g, "search")
    /\ \/ /\ Fault                        \* download_reference fails
          /\ SlaveFails(r, g)
          /\ UNCHANGED local
       \/ /\ Dir(r, g).files[hmmsearch_file] # 0
          /\ Step(r, g, NextStep("search"))
          /\ UNCHANGED local
          /\ NoFault
       \/ /\ Dir(r, g).files[hmmsearch_file] = 0
          /\ SetDir(r, g, [Dir(r, g) EXCEPT !.files[hmmsearch_file] = r,
                                            !.cut = "no"])
          /\ SetTask(r, g, [Entered(task[r][g], NextStep("search")) EXCEPT
                               !.tool = task[r][g].tool + 1])
          /\ NoFault
       \/ /\ Dir(r, g).files[hmmsearch_file] = 0
          /\ Fault                        \* the tool fails
          /\ \E partial \in BOOLEAN :
                SetDir(r, g, Quarantine(ToolLeft(Dir(r, g), r, partial)))
          /\ SetTask(r, g, [task[r][g] EXCEPT
                               !.pc = "log", !.exc = TRUE,
                               !.tool = task[r][g].tool + 1])
    /\ UNCHANGED <<decodeVars, hitVars, envVars, args, runpc, genome_id_list, store>>

\* Lines 103-104: fetch_genes.
Fetch(r, g) ==
    /\ At(r, g, "fetch")
    /\ \/ Step(r, g, NextStep("fetch")) /\ NoFault
       \/ Fault /\ SlaveFails(r, g)
    /\ UNCHANGED <<decodeVars, hitVars, envVars, args, runpc, genome_id_list, store, local>>

\* Line 45: the report the tool writes: two hits of one target, the second
\* of them below the coverage threshold, and a hit of another target.
tool_report ==
    << ReportLine("q1", "T1", 3, 1, 4, 1, 4),
       ReportLine("q4", "T1", 1, 1, 1, 1, 4),
       ReportLine("q5", "T2", 5, 1, 2, 1, 4) >>

\* Line 111: the queries of the hits the slave writes out.
HitQueries ==
    {find_hits(tool_report)[k].query : k \in 1..Len(find_hits(tool_report))}

\* Line 112: genes[rec["query"]] raises KeyError for one of the hits.
MissingGene_ignored(g) == FALSE

MissingGene(g) == \E q \in HitQueries : q \notin genes[g]

\* Lines 107-115: both output files are opened for writing, then one record
\* per hit; a hit whose query is not among the genes raises KeyError.
Emit(r, g) ==
    /\ At(r, g, "emit")
    /\ SetDir(r, g, [Dir(r, g) EXCEPT !.files[hmmsearch_seq] = r,
                                      !.files[hmmsearch_map] = r])
    /\ \/ ~MissingGene(g) /\ Step(r, g, NextStep("emit")) /\ NoFault
       \/ MissingGene(g) /\ SlaveFails(r, g) /\ NoFault
       \/ Fault /\ SlaveFails(r, g)
    /\ UNCHANGED <<decodeVars, hitVars, envVars, args, runpc, genome_id_list, store>>

\* Lines 117-121: the assertion that the map file is the last output.
Validate(r, g) ==
    /\ At(r, g, "validate")
    /\ IF Final(output_files) = lastoutput
       THEN Step(r, g, NextStep("validate"))
       ELSE SlaveFails(r, g)
    /\ UNCHANGED <<decodeVars, hitVars, envVars, args, runpc, genome_id_list, store, local,
                   faults>>

\* The task after the upload of a non-final file o was attempted: every one
\* is attempted, multithreading_map raises when one of them failed, and
\* otherwise the slave goes on to the last upload.
AfterNonFinal(t, o, ok) ==
    LET attempted == t.attempted \cup {o}
        uploaded == IF ok THEN t.uploaded \cup {o} ELSE t.uploaded
        all == Range(NonFinal(output_files))
        u == [t EXCEPT !.attempted = attempted, !.uploaded = uploaded]
    IN IF ~(all \subseteq attempted) THEN u
       ELSE IF all \subseteq uploaded THEN Entered(u, NextStep("upload"))
       ELSE [u EXCEPT !.pc = "log", !.exc = TRUE]

\* Lines 226-229: the uploads of output_files[:-1], in any order.
UploadNonFinal(r, g) ==
    /\ At(r, g, "upload")
    /\ \E o \in Range(NonFinal(output_files)) \ task[r][g].attempted :
          \/ /\ store' = [store EXCEPT ![g][o] = r]
             /\ SetTask(r, g, AfterNonFinal(task[r][g], o, TRUE))
             /\ NoFault
          \/ /\ Fault
             /\ UNCHANGED store
             /\ SetTask(r, g, AfterNonFinal(task[r][g], o, FALSE))
    /\ UNCHANGED <<decodeVars, hitVars, envVars, args, runpc, genome_id_list, local>>

\* Line 232: the upload of output_files[-1], the completion marker.
UploadFinal(r, g) ==
    /\ At(r, g, "final")
    /\ LET t == task[r][g]
           o == Final(output_files)
       IN \/ /\ store' = [store EXCEPT ![g][o] = r]
             /\ SetTask(r, g, [Entered(t, NextStep("final")) EXCEPT
                                        !.attempted = t.attempted \cup {o},
                                        !.uploaded = t.uploaded \cup {o}])
             /\ NoFault
          \/ /\ Fault
             /\ UNCHANGED store
             /\ SetTask(r, g, [t EXCEPT !.attempted = t.attempted \cup {o},
                                        !.pc = "log", !.exc = TRUE])
    /\ UNCHANGED <<decodeVars, hitVars, envVars, args, runpc, genome_id_list, local>>

\* The slave process is killed at any point of its work.
SlaveCrash(r, g) ==
    /\ runpc[r] = "dispatch"
    /\ g \in DOMAIN task[r]
    /\ task[r][g].pc \in WorkerPcs
    /\ Fault
    /\ \/ /\ SlaveFails(r, g)
          /\ UNCHANGED local
       \/ /\ task[r][g].pc = "search"  \* killed while the tool writes
          /\ Dir(r, g).files[hmmsearch_file] = 0
          /\ SetDir(r, g, [Dir(r, g) EXCEPT !.files[hmmsearch_file] = r,
                                            !.cut = "killed"])
          /\ SetTask(r, g, [task[r][g] EXCEPT
                               !.pc = "log", !.exc = TRUE,
                               !.tool = task[r][g].tool + 1])
    /\ UNCHANGED <<decodeVars, hitVars, envVars, args, runpc, genome_id_list, store>>

\* Line 198: the task after upload(..., check=False) of the log, which
\* does not raise when the transfer fails.
AfterLogUpload_checked(t, ok) ==
    [t EXCEPT !.attempted = t.attempted \cup {slave_log},
              !.uploaded = IF ok THEN t.uploaded \cup {slave_log} ELSE t.uploaded,
              !.exc = t.exc \/ ~ok,
              !.pc = "cleanup"]

AfterLogUpload(t, ok) ==
    [t EXCEPT !.attempted = t.attempted \cup {slave_log},
              !.uploaded = IF ok THEN t.uploaded \cup {slave_log} ELSE t.uploaded,
              !.pc = "cleanup"]

\* Lines 195-198: the log is uploaded whether the slave failed or not.
UploadLog(r, g) ==
    /\ At(r, g, "log")
    /\ \/ /\ store' = [store EXCEPT ![g][slave_log] = r]
          /\ SetTask(r, g, AfterLogUpload(task[r][g], TRUE))
          /\ NoFault
       \/ /\ Fault
          /\ UNCHANGED store
          /\ SetTask(r, g, AfterLogUpload(task[r][g], FALSE))
    /\ UNCHANGED <<decodeVars, hitVars, envVars, args, runpc, genome_id_list, local>>

\* Lines 199-200: rm -rf of the directory unless debug, with check=False;
\* then genome_work returns, or the slave's exception goes on.
Cleanup(r, g) ==
    /\ At(r, g, "cleanup")
    /\ \/ /\ ~args[r].debug
          /\ SetDir(r, g, NoDir)
          /\ NoFault
       \/ /\ args[r].debug
          /\ UNCHANGED local
          /\ NoFault
       \/ /\ ~args[r].debug            \* rm -rf fails
          /\ Fault
          /\ UNCHANGED local
    /\ SetTask(r, g, [task[r][g] EXCEPT
                         !.pc = "done", !.outcome = ItemOutcome(task[r][g].exc)])
    /\ UNCHANGED <<decodeVars, hitVars, envVars, args, runpc, genome_id_list, store>>

\* multithreading_map returns when every item is done and raises the
\* exception of an item that failed; __main__ then ends with a traceback.
ExitStatus(r) ==
    IF \E g \in DOMAIN task[r] : task[r][g].outcome = "failure" THEN 1 ELSE 0

FinishRun(r) ==
    /\ runpc[r] = "dispatch"
    /\ \A g \in DOMAIN task[r] : task[r][g].pc = "done"
    /\ runpc' = [runpc EXCEPT ![r] = IF ExitStatus(r) = 0 THEN "exit0" ELSE "exit1"]
    /\ UNCHANGED <<decodeVars, hitVars, envVars, args, genome_id_list, task, store, local,
                   faults>>

\* The master's host goes down: the master and its slaves stop where they are.
HostCrash(r) ==
    /\ runpc[r] = "dispatch"
    /\ Fault
    /\ runpc' = [runpc EXCEPT ![r] = "crashed"]
    /\ UNCHANGED <<decodeVars, hitVars, envVars, args, genome_id_list, task, store, local>>

\* --------------------------------------------------------- specifications
IdleDecoder ==
    /\ sel = <<>>
    /\ decoded = NotDecoded
    /\ modulus = 1
    /\ shards = <<>>

NoHits == [status |-> "none", list |-> <<>>]

IdleHits ==
    /\ report = <<>>
    /\ hits = NoHits

\* Gene ids of a sequence file that holds every query of the report, and
\* of one that lacks the query of an accepted hit.
FullGenes == {"q1", "q4", "q5"}
LackingGenes == {"q1", "q4"}

AllFullGenes == [g \in AllGenomeIds |-> FullGenes]

\* Every genome is consistent, or the second one is not.
GeneTables == {AllFullGenes, [AllFullGenes EXCEPT ![GenomeId(2)] = LackingGenes]}

IdleRuns ==
    /\ args = [r \in Runs |-> NoArgs]
    /\ runpc = [r \in Runs |-> "idle"]
    /\ genome_id_list = [r \in Runs |-> <<>>]
    /\ task = [r \in Runs |-> <<>>]
    /\ store = [g \in AllGenomeIds |-> NoArtifacts]
    /\ local = [h \in Runs |-> [d \in Dirs |-> NoDir]]
    /\ faults = 0

\* The decoder alone, on every catalog and selection of the bounds.
InitDecode ==
    /\ catalog \in SUBSET AllGenomeIds
    /\ genes = AllFullGenes
    /\ sel = <<>>
    /\ decoded = NotDecoded
    /\ modulus \in 1..MaxModulus
    /\ shards = <<>>
    /\ concurrent_runs = FALSE
    /\ IdleHits
    /\ IdleRuns

NextDecode == Decode \/ DecodeShard

SpecDecode == InitDecode /\ [][NextDecode]_vars

\* Lines of reports find_hits is tried on: hits of two targets that pass,
\* tie, are at a threshold or beyond it, and a comment.
LinePool ==
    { ReportLine("q1", "T1", 3, 1, 4, 1, 4),
      ReportLine("q2", "T1", 3, 1, 4, 1, 4),
      ReportLine("q3", "T1", 1, 1, 4, 1, 4),
      ReportLine("q4", "T1", 1, 1, 1, 1, 4),
      ReportLine("q5", "T2", 5, 1, 2, 1, 4),
      ReportLine("q6", "T2", 6, 1, 4, 1, 4),
      ReportLine("q7", "T2", 1, 1, 4, 2, 2),
      CommentLine }

Reports == UNION {[1..k -> LinePool] : k \in 0..MaxLines}

\* One call of find_hits on the report.
FindHits ==
    /\ hits.status = "none"
    /\ hits' = [status |-> "done", list |-> find_hits(report)]
    /\ UNCHANGED <<report, decodeVars, envVars, args, runpc, genome_id_list,
                   task, store, local, faults>>

\* find_hits alone, on every report of the bounds.
InitHits ==
    /\ catalog = AllGenomeIds
    /\ genes = AllFullGenes
    /\ IdleDecoder
    /\ report \in Reports
    /\ hits = NoHits
    /\ concurrent_runs = FALSE
    /\ IdleRuns

NextHits == FindHits

SpecHits == InitHits /\ [][NextHits]_vars

\* Invocations in turn on one host, on an empty store.
Init ==
    /\ catalog = AllGenomeIds
    /\ genes \in GeneTables
    /\ IdleDecoder
    /\ concurrent_runs = FALSE
    /\ IdleHits
    /\ IdleRuns

ItemStep(r, g) ==
    \/ Dispatch(r, g)
    \/ Check(r, g)
    \/ Prep(r, g)
    \/ Clear(r, g)
    \/ Search(r, g)
    \/ Fetch(r, g)
    \/ Emit(r, g)
    \/ Validate(r, g)
    \/ UploadNonFinal(r, g)
    \/ UploadFinal(r, g)
    \/ UploadLog(r, g)
    \/ Cleanup(r, g)

ItemIds == AllGenomeIds \cup {<<"x">>}

RunStep(r) ==
    \/ StartRun(r)
    \/ FinishRun(r)
    \/ \E g \in ItemIds : ItemStep(r, g) \/ SlaveCrash(r, g)

Next == \E r \in Runs : RunStep(r) \/ HostCrash(r)

Spec == Init /\ [][Next]_vars

\* Two invocations over the same genome that overlap, each on its own host.
InitConc ==
    /\ catalog = AllGenomeIds
    /\ genes = AllFullGenes
    /\ IdleDecoder
    /\ concurrent_runs = TRUE
    /\ IdleHits
    /\ IdleRuns

SpecConc == InitConc /\ [][Next]_vars

\* One invocation whose host stays up, and the threads of its pool and its
\* slaves keep running: a step of an item, or the end of the run, that can be
\* taken is taken.
NextLive == RunStep(1)

Work == FinishRun(1) \/ \E g \in ItemIds : ItemStep(1, g)

Fairness == WF_vars(Work)

SpecLive == Init /\ [][NextLive]_vars /\ Fairness


\* ----------------------------------------------------------------- claims
NonFinalArtifacts == {hmmsearch_file, hmmsearch_seq}

Items(r) == DOMAIN task[r]

\* The slave of item g of run r uploaded the completion marker.
Completed(r, g) == ~task[r][g].exc /\ hmmsearch_map \in task[r][g].uploaded

\* C1: in every state of the store, under failures and crashes at any step of
\* invocations that do not overlap, a genome's markers.map is there only if
\* its search report and its marker sequences are; a slave attempts the
\* upload of the map only after both other uploads succeeded.  The uploads
\* keep this order, but the recursive delete of a forced invocation that
\* stops half way leaves the earlier marker without the other artifacts.
C1_MarkerImpliesArtifacts ==
    /\ \A g \in AllGenomeIds :
          store[g][hmmsearch_map] # 0 =>
              store[g][hmmsearch_file] # 0 /\ store[g][hmmsearch_seq] # 0
    /\ \A r \in Runs : \A g \in Items(r) :
          hmmsearch_map \in task[r][g].attempted =>
              NonFinalArtifacts \subseteq task[r][g].uploaded

\* C2: when two invocations work on the same genome at the same time, under
\* every interleaving of their steps and with no step failing, the marker in
\* the store still implies the report and the sequences.
C2_ConcurrentMarkerImpliesArtifacts ==
    \A g \in AllGenomeIds :
        ( /\ faults = 0
          /\ \E r, q \in Runs : r # q /\ g \in Items(r) /\ g \in Items(q) ) =>
            (store[g][lastoutput] # 0 =>
                \A o \in NonFinalArtifacts : store[g][o] # 0)

\* The invocation before r left non-final artifacts of g and no marker, its
\* slave having failed or its host having gone down.
CrashedBeforeMarker(q, g) ==
    /\ g \in Items(q)
    /\ task[q][g].uploaded \cap NonFinalArtifacts # {}
    /\ hmmsearch_map \notin task[q][g].uploaded
    /\ task[q][g].exc \/ runpc[q] = "crashed"

LatestRun(r) == \A q \in Runs : q > r => runpc[q] = "idle"

\* C3: after an invocation whose slave stopped between its non-final uploads
\* and the marker, the next invocation without force does not skip the
\* genome; once its slave uploads anything, nothing of earlier invocations is
\* left at the destination; and when it succeeds the destination holds the
\* three artifacts, all of this invocation, and no other but its own log.
C3_RerunAfterCrash ==
    \A r \in Runs : \A g \in Items(r) :
        (r > 1 /\ CrashedBeforeMarker(r - 1, g) /\ ~args[r].force) =>
            /\ task[r][g].outcome # "skipped"
            /\ (task[r][g].pc \in WorkerPcs \ {"clear"}
                  \/ task[r][g].uploaded \cap Range(output_files) # {}) =>
                  \A f \in StoreFiles : store[g][f] \in {0, r}
            /\ (task[r][g].outcome = "success" /\ LatestRun(r)) =>
                  /\ \A f \in Range(output_files) : store[g][f] = r
                  /\ store[g][slave_log] \in {0, r}

\* The second invocation succeeded on a genome whose first slave was killed
\* after uploading both non-final artifacts.
C3_Witness ==
    \E g \in Items(2) :
        /\ CrashedBeforeMarker(1, g)
        /\ NonFinalArtifacts \subseteq task[1][g].uploaded
        /\ ~args[2].force
        /\ task[2][g].outcome = "success"

\* C4: the check of a genome whose marker is in the store, without force,
\* ends the item as skipped (or as failed when the check itself gave up) and
\* changes neither the store nor any directory; a skipped item never
\* uploaded anything nor ran the tool.
C4_SkipChangesNothing ==
    /\ [][\A r \in Runs : \A g \in Items(r) :
            ( /\ At(r, g, "check")
              /\ g \in catalog
              /\ MarkerPresent(g)
              /\ ~args[r].force
              /\ task'[r][g] # task[r][g] ) =>
                /\ task'[r][g].pc = "done"
                /\ \/ task'[r][g].outcome = "skipped"
                   \/ task'[r][g].outcome = "failure" /\ faults' = faults + 1
                /\ task'[r][g].attempted = {}
                /\ store' = store
                /\ local' = local]_vars
    /\ [](\A r \in Runs : \A g \in Items(r) :
            task[r][g].outcome = "skipped" =>
                /\ task[r][g].pc = "done"
                /\ task[r][g].attempted = {}
                /\ task[r][g].tool = 0)

\* The second invocation skipped a genome the first one completed.
C4_Witness ==
    \E g \in Items(2) :
        /\ g \in Items(1)
        /\ Completed(1, g)
        /\ task[2][g].outcome = "skipped"
        /\ runpc[2] = "exit0"

\* C5: never more than CONCURRENT_MARKER_GENES_IDENTIFY items of a run are in
\* flight, and an item leaves the queue only when fewer are.
C5_ConcurrencyBound ==
    /\ [](\A r \in Runs :
            Cardinality(InFlight(r)) <= CONCURRENT_MARKER_GENES_IDENTIFY)
    /\ [][\A r \in Runs : \A g \in Items(r) :
            ( /\ task[r][g].pc = "queued"
              /\ task'[r][g].pc # "queued" ) =>
                Cardinality(InFlight(r)) < CONCURRENT_MARKER_GENES_IDENTIFY]_vars

\* The pool is full and an item of the list waits in the queue.
C5_Witness ==
    \E r \in Runs :
        /\ Len(genome_id_list[r]) > CONCURRENT_MARKER_GENES_IDENTIFY
        /\ Cardinality(InFlight(r)) = CONCURRENT_MARKER_GENES_IDENTIFY
        /\ \E g \in Items(r) : task[r][g].pc = "queued"

\* C6: in an invocation whose host stays up and whose threads are scheduled,
\* every item of the dispatched list ends as success, skipped or failure,
\* whatever the other items did.
C6_EveryItemEnds ==
    (runpc[1] = "dispatch")
        ~> (\A g \in Items(1) : task[1][g].outcome # "none")

\* The first two items of a list of three failed and the third, which had to
\* wait for one of them, succeeded.
C6_Witness ==
    \E r \in Runs :
        /\ Len(genome_id_list[r]) = 3
        /\ task[r][genome_id_list[r][1]].outcome = "failure"
        /\ task[r][genome_id_list[r][2]].outcome = "failure"
        /\ Completed(r, genome_id_list[r][3])
        /\ task[r][genome_id_list[r][3]].outcome = "success"

\* The item did not reach success and was not skipped.
ItemFailed(r, g) ==
    /\ task[r][g].pc = "done"
    /\ task[r][g].outcome # "skipped"
    /\ ~Completed(r, g)

\* C7: a run exits with status zero only if each of its items uploaded its
\* marker without error or was skipped, and with a non-zero status whenever
\* one of them failed.
C7_ExitStatus ==
    \A r \in Runs :
        /\ runpc[r] = "exit0" =>
              \A g \in Items(r) :
                  task[r][g].outcome = "skipped" \/ Completed(r, g)
        /\ (runpc[r] \in {"exit0", "exit1"}
              /\ \E g \in Items(r) : ItemFailed(r, g)) => runpc[r] = "exit1"

\* A run ended non-zero with an item that succeeded and one that failed.
C7_Witness ==
    \E r \in Runs : \E g, h \in Items(r) :
        /\ runpc[r] = "exit1"
        /\ Completed(r, g) /\ task[r][g].outcome = "success"
        /\ ItemFailed(r, h)

\* C8: for every catalog and modulus n, the lists decoded for 0:n .. n-1:n
\* are pairwise disjoint and together hold every genome of the catalog.
C8_SlicesPartition ==
    Len(shards) = modulus =>
        /\ \A k \in 1..modulus : shards[k].status = "ok"
        /\ \A j, k \in 1..modulus :
              j # k => Range(shards[j].list) \cap Range(shards[k].list) = {}
        /\ UNION {Range(shards[k].list) : k \in 1..modulus} = catalog

\* All slices of a modulus above 1 decoded over a catalog of several genomes,
\* two of them not empty.
C8_Witness ==
    /\ modulus > 1
    /\ Len(shards) = modulus
    /\ Cardinality(catalog) > 2
    /\ \E j, k \in 1..modulus :
          j # k /\ shards[j].list # <<>> /\ shards[k].list # <<>>

\* A token with a colon that is no pair i:n of integers with 0 <= i < n.
BadSlice(tok) ==
    /\ Contains(tok, ":")
    /\ LET parts == Split(tok, ":")
       IN \/ Len(parts) # 2
          \/ ~ParseInt(parts[1]).ok
          \/ ~ParseInt(parts[2]).ok
          \/ ParseInt(parts[1]).val < 0
          \/ ParseInt(parts[1]).val >= ParseInt(parts[2]).val

\* C9: a selection with a bad slice anywhere in its list makes the decoder
\* raise and return nothing.
C9_BadSliceRaises ==
    (decoded.status # "none"
        /\ \E k \in 1..Len(Split(sel, ",")) : BadSlice(Split(sel, ",")[k])) =>
            decoded.status = "error" /\ decoded.list = <<>>

\* The decoder raised on a bad slice that follows a genome of the catalog.
C9_Witness ==
    /\ decoded.status = "error"
    /\ Len(Split(sel, ",")) = 2
    /\ Split(sel, ",")[1] \in catalog
    /\ BadSlice(Split(sel, ",")[2])

\* A token that is neither a genome of the catalog nor a slice in range.
UnknownToken(tok) == tok \notin catalog /\ (~Contains(tok, ":") \/ BadSlice(tok))

\* C10: a run whose selection holds an unknown token ends with an error
\* before any item is dispatched: it has no item, checked or launched.
C10_UnknownTokenAbortsRun ==
    \A r \in Runs :
        (runpc[r] # "idle"
            /\ Upper(args[r].genomes) # <<"A", "L", "L">>
            /\ \E k \in 1..Len(Split(args[r].genomes, ",")) :
                  UnknownToken(Split(args[r].genomes, ",")[k])) =>
            runpc[r] = "exit1" /\ Items(r) = {}

\* The spellings of the keyword the decoder is tried on.
AllSpellings == {<<"a", "l", "l">>, <<"A", "L", "L">>, <<"A", "l", "l">>}

\* Each element is below the next one: sorted, and no element twice.
StrictlySorted(list) ==
    \A k \in 1..(Len(list) - 1) : StrLess(list[k], list[k + 1])

\* C11: a selection the decoder accepts yields a list that is sorted and
\* holds no genome twice, made of the tokens without colon and of genomes of
\* the catalog; for "all" in any letter case it holds exactly the catalog.
C11_SortedNoDuplicates ==
    decoded.status = "ok" =>
        /\ StrictlySorted(decoded.list)
        /\ sel \in AllSpellings => Range(decoded.list) = catalog
        /\ sel \notin AllSpellings =>
              \A g \in Range(decoded.list) :
                  \/ g \in catalog
                  \/ \E k \in 1..Len(Split(sel, ",")) : Split(sel, ",")[k] = g

\* A genome named literally and matched by the slice that follows it is in
\* the list once, next to the other genome of the slice.
C11_Witness ==
    /\ decoded.status = "ok"
    /\ sel = Join(<<GenomeId(1), Slice(<<"1">>, <<"2">>)>>)
    /\ catalog = AllGenomeIds
    /\ decoded.list = <<GenomeId(1), GenomeId(3)>>

\* The records of the report handed to find_hits.
Records == parse_hmmsearch(report)

Targets == {Records[k].target : k \in 1..Len(Records)}

\* The e-value does not exceed the maximum, and neither coverage is below
\* the minimum.
WithinThresholds(rec) ==
    /\ rec.evalue <= hmmsearch_max_evalue
    /\ rec.qcov[1] * hmmsearch_min_cov[2] >= hmmsearch_min_cov[1] * rec.qcov[2]
    /\ rec.tcov[1] * hmmsearch_min_cov[2] >= hmmsearch_min_cov[1] * rec.tcov[2]

PassingOf(t) ==
    {k \in 1..Len(Records) :
        Records[k].target = t /\ WithinThresholds(Records[k])}

\* The first record among those of the smallest e-value that pass.
BestOf(t) ==
    CHOOSE k \in PassingOf(t) :
        \A j \in PassingOf(t) :
            \/ Records[k].evalue < Records[j].evalue
            \/ Records[k].evalue = Records[j].evalue /\ k <= j

\* C12: find_hits returns at most one hit per target, and for a target with
\* a hit that passes the thresholds it returns the passing hit of the
\* smallest e-value, the earliest of the report among those that tie.
C12_BestHitPerTarget ==
    hits.status = "done" =>
        /\ \A j, k \in 1..Len(hits.list) :
              j # k => hits.list[j].target # hits.list[k].target
        /\ \A t \in Targets :
              PassingOf(t) # {} =>
                  \E k \in 1..Len(hits.list) : hits.list[k] = Records[BestOf(t)]

\* Two different hits of one target tie at the smallest e-value, and the
\* first of the report is the one returned.
C12_Witness ==
    /\ hits.status = "done"
    /\ Len(Records) = 3
    /\ \A k \in 1..3 : Records[k].target = Records[1].target
    /\ \A k \in 1..3 : WithinThresholds(Records[k])
    /\ Records[2].evalue = Records[1].evalue
    /\ Records[2] # Records[1]
    /\ Records[3] = Records[2]
    /\ hits.list = <<Records[1]>>

\* C13: every hit find_hits returns is a record of the report within both
\* thresholds, and a target with such a record has a hit returned, whatever
\* the e-values of its records that fail a threshold.
C13_OnlyPassingHits ==
    hits.status = "done" =>
        /\ \A k \in 1..Len(hits.list) :
              /\ WithinThresholds(hits.list[k])
              /\ hits.list[k] \in Range(Records)
        /\ \A t \in Targets :
              PassingOf(t) # {} =>
                  \E k \in 1..Len(hits.list) : hits.list[k].target = t

\* A hit below the coverage threshold, of a smaller e-value, comes before
\* and after the passing hit of its target, which is the one returned.
C13_Witness ==
    /\ hits.status = "done"
    /\ Len(Records) = 3
    /\ Records[1] = Records[3]
    /\ Records[1].target = Records[2].target
    /\ Records[1].evalue < Records[2].evalue
    /\ Records[1].evalue <= hmmsearch_max_evalue
    /\ ~WithinThresholds(Records[1])
    /\ WithinThresholds(Records[2])
    /\ hits.list = <<Records[2]>>

\* The slave of the item was started.
Launched(r, g) == task[r][g].last # "none"

\* C14: the log of a launched item is uploaded, or the upload tried, after
\* the slave ended and before the directory is removed, whether the slave
\* failed or not; the item ends as the slave did, whatever became of the log
\* and of the removal; the directory is removed unless debug keeps it.
C14_LogUploadedBestEffort ==
    /\ [](\A r \in Runs : \A g \in Items(r) :
            /\ task[r][g].pc \in WorkerPcs => slave_log \notin task[r][g].attempted
            /\ (Launched(r, g) /\ task[r][g].pc \in {"cleanup", "done"}) =>
                  slave_log \in task[r][g].attempted
            /\ (Launched(r, g) /\ task[r][g].pc = "done") =>
                  task[r][g].outcome =
                      IF hmmsearch_map \in task[r][g].uploaded
                      THEN "success" ELSE "failure")
    /\ [][\A r \in Runs : \A g \in Items(r) :
            (task[r][g].pc = "cleanup" /\ task'[r][g].pc = "done") =>
                /\ store' = store
                /\ (~args[r].debug /\ faults' = faults) =>
                      local'[Host(r)][slave_subdir(g)] = NoDir
                /\ args[r].debug =>
                      /\ local' = local
                      /\ local[Host(r)][slave_subdir(g)].exists]_vars

\* An item whose slave uploaded the marker ended as a success although the
\* upload of its log failed, next to one whose slave failed and whose log
\* is in the store.
C14_Witness ==
    \E r \in Runs : \E g, h \in Items(r) \cap AllGenomeIds :
        /\ task[r][g].outcome = "success"
        /\ slave_log \in task[r][g].attempted \ task[r][g].uploaded
        /\ task[r][h].outcome = "failure"
        /\ task[r][h].exc
        /\ store[h][slave_log] = r

\* The order of the slave's steps.
StepAfter ==
    [pc \in WorkerPcs |->
        CASE pc = "clear" -> "search" [] pc = "search" -> "fetch"
          [] pc = "fetch" -> "emit" [] pc = "emit" -> "validate"
          [] pc = "validate" -> "upload" [] pc = "upload" -> "final"
          [] pc = "final" -> "log"]

\* C15: a slave goes through Clear, Search, Fetch, Emit, Validate, the
\* non-final uploads and the final upload in this order and ends at the first
\* step that fails; the tool runs only in Search, and a file is uploaded only
\* in the upload steps, with the sequences and the map written.
C15_StepOrder ==
    /\ [][\A r \in Runs : \A g \in Items(r) :
            /\ (task'[r][g].pc = "clear" /\ task[r][g].pc # "clear") =>
                  task[r][g].pc = "prep"
            /\ (task[r][g].pc \in WorkerPcs /\ task'[r][g].pc # task[r][g].pc) =>
                  \/ task'[r][g].pc = StepAfter[task[r][g].pc] /\ ~task'[r][g].exc
                  \/ task'[r][g].pc = "log" /\ task'[r][g].exc
            /\ task'[r][g].tool # task[r][g].tool => task[r][g].pc = "search"
            /\ (\E f \in Range(output_files) :
                    f \in task'[r][g].attempted \ task[r][g].attempted) =>
                  /\ task[r][g].pc \in {"upload", "final"}
                  /\ local[Host(r)][slave_subdir(g)].files[hmmsearch_seq] = r
                  /\ local[Host(r)][slave_subdir(g)].files[hmmsearch_map] = r
                  /\ \A o \in StoreFiles : store[g][o] \in {0, r}]_vars
    /\ [](\A r \in Runs : \A g \in Items(r) :
            /\ task[r][g].exc => task[r][g].pc \notin WorkerPcs
            /\ task[r][g].attempted \cap Range(output_files) # {} =>
                  task[r][g].last \in {"upload", "final"}
            /\ hmmsearch_map \in task[r][g].attempted => task[r][g].last = "final")

\* A slave went through every step while the slave of another item of the
\* run stopped in Fetch, having uploaded nothing.
C15_Witness ==
    \E r \in Runs : \E g, h \in Items(r) :
        /\ task[r][g].last = "final" /\ task[r][g].outcome = "success"
        /\ task[r][h].last = "fetch" /\ task[r][h].exc
        /\ task[r][h].attempted \cap Range(output_files) = {}
        /\ task[r][h].pc = "done"

\* The step of item g of run r in which its search tool fails.
ToolFails(r, g) ==
    /\ task[r][g].pc = "search"
    /\ task'[r][g].tool = task[r][g].tool + 1
    /\ task'[r][g].exc
    /\ local'[Host(r)][slave_subdir(g)].cut # "killed"

\* C16: when the search tool fails it is not run again, no report is left
\* under the report's name, and the slave fails; no directory ever holds,
\* under the report's name, what a failed tool wrote, so a slave that finds
\* no report runs the tool, and one that finds a report finds none of a
\* failed tool.
C16_FailedToolQuarantined ==
    /\ [][\A r \in Runs : \A g \in Items(r) :
            /\ ToolFails(r, g) =>
                  /\ task'[r][g].pc = "log"
                  /\ task'[r][g].tool = 1
                  /\ local'[Host(r)][slave_subdir(g)].files[hmmsearch_file] = 0
                  /\ local'[Host(r)][slave_subdir(g)].files[bogus_file]
                        \in {r, local[Host(r)][slave_subdir(g)].files[bogus_file]}
            /\ ( /\ task[r][g].pc = "search"
                 /\ task'[r][g].pc = "fetch"
                 /\ local[Host(r)][slave_subdir(g)].files[hmmsearch_file] = 0 ) =>
                  task'[r][g].tool = task[r][g].tool + 1]_vars
    /\ [](\A h \in Runs : \A d \in Dirs : local[h][d].cut # "failed")
    /\ [](\A r \in Runs : \A g \in Items(r) : task[r][g].tool <= 1)

\* The tool of the first invocation failed and left a report cut short; the
\* second invocation, made with debug in the same directory, found the
\* quarantined file, ran the tool again and went on.
C16_Witness ==
    \E g \in Items(1) \cap Items(2) :
        /\ args[1].debug /\ args[2].debug
        /\ task[1][g].tool = 1 /\ task[1][g].exc /\ task[1][g].last = "search"
        /\ local[Host(2)][slave_subdir(g)].files[bogus_file] = 1
        /\ local[Host(2)][slave_subdir(g)].files[hmmsearch_file] = 2
        /\ task[2][g].tool = 1 /\ task[2][g].last = "final"

\* The sequence file of the genome lacks a gene the report has an accepted
\* hit for.
LacksGene(g) == \E q \in HitQueries : q \notin genes[g]

\* C17: the slave of a genome whose sequences lack the gene of an accepted
\* hit fails in Emit: it uploads none of its output files, the item ends as
\* a failure with no marker in the store, and the failing step leaves the
\* store and the other items as they are.
C17_MissingGeneFailsItem ==
    /\ [][\A r \in Runs : \A g \in Items(r) \cap AllGenomeIds :
            ( /\ LacksGene(g)
              /\ task[r][g].pc = "emit"
              /\ task'[r][g].pc # "emit" ) =>
                /\ task'[r][g].pc = "log" /\ task'[r][g].exc
                /\ store' = store
                /\ \A h \in Items(r) \ {g} : task'[r][h] = task[r][h]]_vars
    /\ [](\A r \in Runs : \A g \in Items(r) \cap AllGenomeIds :
            (LacksGene(g) /\ Launched(r, g)) =>
                /\ task[r][g].last \in {"clear", "search", "fetch", "emit"}
                /\ task[r][g].attempted \cap Range(output_files) = {}
                /\ task[r][g].pc = "done" => task[r][g].outcome = "failure"
                /\ task[r][g].last # "clear" => store[g][lastoutput] = 0)

\* The slave of the genome that lacks a gene failed in Emit without a fault,
\* and the two other items of the run succeeded.
C17_Witness ==
    \E r \in Runs : \E g \in Items(r) \cap AllGenomeIds :
        /\ LacksGene(g)
        /\ task[r][g].last = "emit" /\ task[r][g].outcome = "failure"
        /\ faults = 0
        /\ runpc[r] = "exit1"
        /\ Cardinality({h \in Items(r) : task[r][h].outcome = "success"}) = 2

\* genome_work has a directory for the item: from its preparation to its
\* removal.
HasArea(r, g) == task[r][g].pc \in {"prep", "log", "cleanup"} \cup WorkerPcs

\* C18: the list of a run names no genome twice, two items of a run that
\* are in flight work in different directories, and without debug the slave
\* starts in a directory that holds nothing but the log just opened.
C18_IsolatedWorkingAreas ==
    /\ [](\A r \in Runs :
            /\ \A j, k \in 1..Len(genome_id_list[r]) :
                  j # k => genome_id_list[r][j] # genome_id_list[r][k]
            /\ \A g, h \in Items(r) :
                  (g # h /\ HasArea(r, g) /\ HasArea(r, h)) =>
                      slave_subdir(g) # slave_subdir(h))
    /\ [][\A r \in Runs : \A g \in Items(r) :
            ( /\ task[r][g].pc = "prep"
              /\ task'[r][g].pc = "clear"
              /\ ~args[r].debug ) =>
                local'[Host(r)][slave_subdir(g)] =
                    [NoDir EXCEPT !.exists = TRUE, !.files[slave_log] = r]]_vars

\* Two genomes of one species are worked on at the same time, one slave
\* having written its report and the other not yet.
C18_Witness ==
    \E r \in Runs : \E g, h \in Items(r) \cap AllGenomeIds :
        /\ g # h
        /\ species_for_genome[g] = species_for_genome[h]
        /\ task[r][g].pc = "fetch"
        /\ task[r][h].pc = "search"
        /\ local[Host(r)][slave_subdir(g)].files[hmmsearch_file] = r
        /\ local[Host(r)][slave_subdir(h)].files[hmmsearch_file] = 0

\* The slave is past its Search step.
PastSearch(r, g) ==
    task[r][g].last \in {"fetch", "emit", "validate", "upload", "final"}

\* C19: without debug a slave finds no report in its directory and runs the
\* tool once before it leaves Search; a slave that left Search without
\* running the tool was started with debug.
C19_ToolOnceWithoutDebug ==
    /\ [](\A r \in Runs : \A g \in Items(r) :
            /\ (~args[r].debug /\ PastSearch(r, g)) => task[r][g].tool = 1
            /\ (~args[r].debug /\ At(r, g, "search")) =>
                  local[Host(r)][slave_subdir(g)].files[hmmsearch_file] = 0
            /\ (PastSearch(r, g) /\ task[r][g].tool = 0) => args[r].debug)
    /\ [][\A r \in Runs : \A g \in Items(r) :
            (~args[r].debug /\ task'[r][g].tool # task[r][g].tool) =>
                task[r][g].tool = 0]_vars

\* The first invocation, with debug, left its report in the directory; the
\* second one, without debug, ran the tool itself, and in another scenario
\* of the same kind a second invocation with debug would reuse the report.
C19_Witness ==
    \E g \in Items(1) \cap Items(2) :
        /\ args[1].debug /\ ~args[2].debug
        /\ task[1][g].tool = 1 /\ PastSearch(1, g) /\ task[1][g].exc
        /\ task[1][g].pc = "done"
        /\ task[2][g].tool = 1 /\ PastSearch(2, g)

\* A second invocation with debug went through Search on the report of the
\* first one, without running the tool.
ReusedReport ==
    \E g \in Items(1) \cap Items(2) :
        /\ args[2].debug
        /\ task[2][g].tool = 0 /\ PastSearch(2, g)

\* The slave's Clear step succeeded.
Cleared(r, g) == Launched(r, g) /\ task[r][g].last # "clear"

\* C20: in a forced invocation over a genome the invocation before had
\* completed, the slave's Clear step takes the marker out of the store, and
\* from then on the marker is in the store only once this slave has
\* uploaded it; a slave that fails after Clear and before its final upload
\* leaves the genome without marker.
C20_ForcedRerunDropsMarker ==
    /\ [][\A r \in Runs : \A g \in Items(r) :
            ( /\ task[r][g].pc = "clear"
              /\ task'[r][g].pc = "search" ) =>
                store'[g][lastoutput] = 0]_vars
    /\ [](\A r \in Runs : \A g \in Items(r) :
            ( /\ r > 1
              /\ args[r].force
              /\ g \in Items(r - 1)
              /\ Completed(r - 1, g)
              /\ Cleared(r, g)
              /\ LatestRun(r) ) =>
                /\ store[g][lastoutput] \in {0, r}
                /\ store[g][lastoutput] = r <=> lastoutput \in task[r][g].uploaded
                /\ (task[r][g].exc /\ task[r][g].last # "final") =>
                      store[g][lastoutput] = 0)

\* The forced invocation over a completed genome failed in Fetch and ended,
\* and the genome has no marker any more.
C20_Witness ==
    \E g \in Items(1) \cap Items(2) :
        /\ Completed(1, g)
        /\ args[2].force
        /\ task[2][g].exc /\ task[2][g].last = "fetch"
        /\ runpc[2] = "exit1"
        /\ store[g][lastoutput] = 0

====
